---- MODULE Spec2Model ----
(***************************************************************************)
(* Weather dashboard: the saved-city collection (composables/useCities.js) *)
(* and its localStorage mirror (utils/storage.js); the weather of one city *)
(* (composables/useWeather.js) with the forecast aggregation and the unit  *)
(* conversion of utils/helpers.js; the preferences and the search history  *)
(* kept in localStorage.                                                   *)
(*                                                                         *)
(* The city search (composables/useSearch.js) with its debounce timer, and *)
(* a second useCities instance on the same store, come last.               *)
(*                                                                         *)
(* One useCities instance is modelled as the refs it owns (cities,         *)
(* selectedCities), the string localStorage holds under the saved-cities   *)
(* key, and the wall clock Date.now() reads.  Every exported function of   *)
(* the composable is one action; each runs to completion (the event loop   *)
(* never interleaves two handlers).                                        *)
(***************************************************************************)
EXTENDS Integers, Sequences, FiniteSets, TLC

VARIABLES
    cities,          \* useCities.js:13  ref: the in-memory ordered list of City
    selectedCities,  \* useCities.js:14  ref: array of selected city ids
    localStorage,    \* the browser store: key -> null | serialized string
    clock,           \* the value Date.now() would return now
    lastCall,        \* observation: the last call, what it returned, how many
                     \*   setItem calls it made, whether one of them threw, and
                     \*   the length of cities as the call found it
    lastToggle,      \* observation: when the last call was toggleCitySelection,
                     \*   its argument, selectedCities as it found them, and
                     \*   whether the call before it was the same toggle
    weather,         \* useWeather.js:11  ref: the current weather, or null
    forecast,        \* useWeather.js:12  ref: the forecast list, or null
    alerts,          \* useWeather.js:13  ref: array of alerts
    loading,         \* useWeather.js:14  ref
    error,           \* useWeather.js:15  ref: a message, or null
    lastUpdated,     \* useWeather.js:16  ref: the time of the last full fetch, or null
    unit,            \* useWeather.js:19  ref: the display unit
    calls,           \* the fetchWeatherData calls: for each, the await it is at
    preferences,     \* App.vue:17  ref: the preferences object
    sharesDefaults,  \* whether that object is DEFAULT_PREFERENCES itself
                     \*   (getPreferences returns it when nothing is stored)
    DEFAULT_PREFERENCES, \* storage.js:10  the defaults object
    conversion,      \* observation: the last call of convertTemperature, with
                     \*   its arguments and what it returned
    otherCities,     \* useCities.js:13  the cities ref of a second useCities
                     \*   instance (another tab) on the same store
    query,           \* useSearch.js:10  ref: the text of the search box
    results,         \* useSearch.js:11  ref: array of cities found
    searchLoading,   \* useSearch.js:12  ref loading
    searchError,     \* useSearch.js:13  ref error: a message, or null
    showDropdown,    \* useSearch.js:14  ref
    timeout,         \* helpers.js:219  the timer id debounce keeps (0: none yet)
    timers,          \* the timers set and neither run nor cleared: id,
                     \*   arguments of the call that set it, time left
    searches,        \* the search calls awaiting searchCities, each with its query
    burst            \* observation: the calls of the debounced function
                     \*   since the wrapped function last ran, the arguments
                     \*   of the last of them, the time since it and the
                     \*   invocations of the wrapped function since it; and
                     \*   the query of the search started last

\* the saved-city collection and its observations
cityVars == <<cities, selectedCities, lastToggle>>

\* one useWeather instance
weatherVars == <<weather, forecast, alerts, loading, error, lastUpdated, unit, calls>>

\* the preferences of App.vue and the defaults they may share
preferenceVars == <<preferences, sharesDefaults, DEFAULT_PREFERENCES>>

\* one useSearch instance, its debounce timer and its observations
searchVars == <<query, results, searchLoading, searchError, showDropdown,
                timeout, timers, searches, burst>>

vars == <<cities, selectedCities, localStorage, clock, lastCall, lastToggle,
          weather, forecast, alerts, loading, error, lastUpdated, unit, calls,
          preferences, sharesDefaults, DEFAULT_PREFERENCES, conversion,
          otherCities, query, results, searchLoading, searchError, showDropdown,
          timeout, timers, searches, burst>>

(***************************************************************************)
(* Bounds of the model and constants of the program.                       *)
(***************************************************************************)
\* useCities.js:19
maxCities == 6

\* Number of distinct places the search offers (all but SpecCapacity).
NumPlaces == 3

\* Largest reading of the clock; time stops advancing there.
MaxClock == 1

\* storage.js:3-6
CITIES == "weather_dashboard_cities"
PREFERENCES == "weather_dashboard_preferences"
LAYOUT == "weather_dashboard_layout"
SEARCH_HISTORY == "weather_dashboard_search_history"

STORAGE_KEYS == {CITIES, PREFERENCES, LAYOUT, SEARCH_HISTORY}

\* localStorage.getItem of a key never set: null, which is falsy like the
\* empty string.  Strings are sequences of tokens, so null is the empty one.
Null == <<>>

\* What a call hands back: true, false, nothing, or (Throws) an exception.
RetTrue == "true"
RetFalse == "false"
Undefined == "undefined"
Throws == "throws"

(***************************************************************************)
(* Inputs.  A place is what the geocoding search hands to addCity: only    *)
(* its coordinates are ever read.  Places share latitudes and longitudes   *)
(* pairwise so that "same lat" and "same lon" alone do not make a match.   *)
(***************************************************************************)
Place(i) == [lat |-> i \div 2, lon |-> i % 2]

SearchResults == {Place(i) : i \in 0..(NumPlaces - 1)}

\* One place more than the collection holds: enough for a 7th add of new
\* coordinates, whichever six are held.
CapacityResults == {Place(i) : i \in 0..maxCities}

\* storage.js:10-16
DefaultPreferences ==
    [temperatureUnit |-> "celsius", theme |-> "dark", autoRefresh |-> TRUE,
     refreshInterval |-> 300000, showAlerts |-> TRUE]

\* The fetchWeatherData calls of one useWeather instance that may be running
\* at once: the first fetch and refreshes that overlap it.
MaxCalls == 2
Calls == 1..MaxCalls

NotConverted == [called |-> FALSE]

\* An id no addCity ever produces (toggle and remove accept any string).
ForeignId == <<"foreign">>

NotToggled == [toggled |-> FALSE, id |-> ForeignId, selected |-> <<>>, twice |-> FALSE]

(***************************************************************************)
(* Array helpers, as the JavaScript built-ins behave.                      *)
(***************************************************************************)
Min(a, b) == IF a < b THEN a ELSE b

Max(a, b) == IF a > b THEN a ELSE b

\* Array.prototype.indexOf, 0-based, -1 when absent (first occurrence)
indexOf(s, x) ==
    IF \E i \in 1..Len(s) : s[i] = x
    THEN (CHOOSE i \in 1..Len(s) : s[i] = x /\ \A j \in 1..(i - 1) : s[j] # x) - 1
    ELSE -1

\* The start index splice uses: negative counts from the end, then clamped.
spliceStart(s, start) ==
    IF start < 0 THEN Max(Len(s) + start, 0) ELSE Min(start, Len(s))

\* s.splice(start, 1): the array left, and the removed elements
spliceOut(s, start) ==
    LET k == spliceStart(s, start)
        n == Min(1, Len(s) - k)
    IN  [rest    |-> SubSeq(s, 1, k) \o SubSeq(s, k + n + 1, Len(s)),
         removed |-> SubSeq(s, k + 1, k + n)]

\* s.splice(start, 0, item): the array with item inserted
spliceIn(s, start, item) ==
    LET k == spliceStart(s, start)
    IN  SubSeq(s, 1, k) \o <<item>> \o SubSeq(s, k + 1, Len(s))

SetOf(s) == {s[i] : i \in 1..Len(s)}

(***************************************************************************)
(* JSON.stringify / JSON.parse of an array of city objects.  The string is *)
(* modelled as its tokens: "[", then each object as its key/value pairs in *)
(* insertion order, then "]"; parsing rebuilds the objects from the pairs. *)
(***************************************************************************)
stringifyCity(c) ==
    <<  <<"lat", c.lat>>, <<"lon", c.lon>>, <<"id", c.id>>  >>

JSONstringify(list) ==
    <<"[">> \o [i \in 1..Len(list) |-> stringifyCity(list[i])] \o <<"]">>

valueOf(pairs, key) ==
    pairs[CHOOSE i \in 1..Len(pairs) : pairs[i][1] = key][2]

parseCity(pairs) ==
    [lat |-> valueOf(pairs, "lat"),
     lon |-> valueOf(pairs, "lon"),
     id  |-> valueOf(pairs, "id")]

JSONparse(str) == [i \in 1..(Len(str) - 2) |-> parseCity(str[i + 1])]

(***************************************************************************)
(* utils/storage.js.  Each function maps the store to the store it leaves, *)
(* whether it raised, and how many times it called setItem.  writeOk tells *)
(* whether setItem succeeds (it throws QuotaExceededError otherwise).      *)
(***************************************************************************)
getSavedCities(ls) ==
    IF ls[CITIES] = Null THEN <<>> ELSE JSONparse(ls[CITIES])

\* Bug variant of saveCities: no try/catch around setItem.
saveCitiesUncaught(ls, list, writeOk) ==
    [ls       |-> IF writeOk THEN [ls EXCEPT ![CITIES] = JSONstringify(list)] ELSE ls,
     threw    |-> ~writeOk,
     setItems |-> 1]

saveCities(ls, list, writeOk) ==
    \* try { setItem } catch { console.error }: the error stops here
    [ls       |-> IF writeOk THEN [ls EXCEPT ![CITIES] = JSONstringify(list)] ELSE ls,
     threw    |-> FALSE,
     setItems |-> 1]

\* Bug variants of exists: matching on latitude alone; comparing the objects
\* themselves (a search result never is a stored city, so nothing matches).
existsByLatitude(list, city) ==
    \E i \in 1..Len(list) : list[i].lat = city.lat

existsSameObject(list, city) ==
    \E i \in 1..Len(list) : list[i] = [lat |-> city.lat, lon |-> city.lon, id |-> Undefined]

\* c => c.lat === city.lat && c.lon === city.lon, under Array.prototype.some
exists(list, city) ==
    \E i \in 1..Len(list) : list[i].lat = city.lat /\ list[i].lon = city.lon

\* `${city.lat}-${city.lon}-${Date.now()}`
cityId(city, now) == <<city.lat, city.lon, now>>

\* { ...city, id: ..., addedAt: ... }.  Of a city's fields only lat, lon and
\* id are ever read by the collection; name, country, state and addedAt are
\* carried along untouched and are left out of the record.
stamp(city, now) ==
    [lat |-> city.lat, lon |-> city.lon, id |-> cityId(city, now)]

storageAddCity(ls, city, now, writeOk) ==
    LET saved == getSavedCities(ls)
    IN  IF ~exists(saved, city)
        THEN saveCities(ls, Append(saved, stamp(city, now)), writeOk)
        ELSE [ls |-> ls, threw |-> FALSE, setItems |-> 0]

storageRemoveCity(ls, cityId_, writeOk) ==
    \* cities.filter(city => city.id !== cityId)
    LET Keep(c) == c.id # cityId_
    IN  saveCities(ls, SelectSeq(getSavedCities(ls), Keep), writeOk)

updateCityOrder(ls, list, writeOk) == saveCities(ls, list, writeOk)

\* The values a preference may take.
PreferenceValues ==
    [temperatureUnit |-> {"celsius", "fahrenheit"},
     theme           |-> {"dark", "light"},
     autoRefresh     |-> BOOLEAN,
     refreshInterval |-> {300000, 60000},
     showAlerts      |-> BOOLEAN]

PreferenceKeys ==
    <<"temperatureUnit", "theme", "autoRefresh", "refreshInterval", "showAlerts">>

\* { ...a, ...b }
spread(a, b) ==
    [k \in (DOMAIN a) \cup (DOMAIN b) |-> IF k \in DOMAIN b THEN b[k] ELSE a[k]]

\* JSON.stringify of a preferences object: its fields as key and literal
stringifyPreferences(obj) ==
    LET Present(k) == k \in DOMAIN obj
        keys == SelectSeq(PreferenceKeys, Present)
    IN  <<"{">> \o [i \in 1..Len(keys) |-> <<keys[i], ToString(obj[keys[i]])>>] \o <<"}">>

\* JSON.parse of such a string
parsePreferences(str) ==
    LET pairs == SubSeq(str, 2, Len(str) - 1)
    IN  [k \in {pairs[i][1] : i \in 1..Len(pairs)} |->
            CHOOSE v \in PreferenceValues[k] : ToString(v) = valueOf(pairs, k)]

\* storage.js:94-102
getPreferences(ls, defaults) ==
    IF ls[PREFERENCES] = Null THEN defaults
    ELSE spread(defaults, parsePreferences(ls[PREFERENCES]))

\* Bug variant of savePreferences: only the fields handed in are written.
savePreferencesOverwrites(ls, defaults, prefs, writeOk) ==
    [ls |-> IF writeOk
            THEN [ls EXCEPT ![PREFERENCES] = stringifyPreferences(prefs)]
            ELSE ls,
     threw |-> FALSE, setItems |-> 1]

\* storage.js:108-116
savePreferences(ls, defaults, prefs, writeOk) ==
    LET currentPrefs == getPreferences(ls, defaults)
        updatedPrefs == spread(currentPrefs, prefs)
    IN  [ls |-> IF writeOk
                THEN [ls EXCEPT ![PREFERENCES] = stringifyPreferences(updatedPrefs)]
                ELSE ls,
         threw |-> FALSE, setItems |-> 1]

\* JSON.stringify and JSON.parse of a search history: its entries carry the
\* coordinates of the city searched and searchedAt (the other fields of the
\* search result are carried along untouched and are left out)
stringifyHistory(list) ==
    <<"[">> \o [i \in 1..Len(list) |->
                  << <<"lat", list[i].lat>>, <<"lon", list[i].lon>>,
                     <<"searchedAt", list[i].searchedAt>> >>] \o <<"]">>

parseHistory(str) ==
    [i \in 1..(Len(str) - 2) |->
        [lat |-> valueOf(str[i + 1], "lat"), lon |-> valueOf(str[i + 1], "lon"),
         searchedAt |-> valueOf(str[i + 1], "searchedAt")]]

\* storage.js:148-156
getSearchHistory(ls) ==
    IF ls[SEARCH_HISTORY] = Null THEN <<>> ELSE parseHistory(ls[SEARCH_HISTORY])

\* storage.js:180
MaxHistory == 10

\* Bug variant of addToSearchHistory: the entry for the same place is not
\* taken out first.
addToSearchHistoryKeeps(ls, city, now, writeOk) ==
    LET history == getSearchHistory(ls)
        added == <<[lat |-> city.lat, lon |-> city.lon, searchedAt |-> now]>> \o history
        kept == SubSeq(added, 1, Min(MaxHistory, Len(added)))
    IN  [ls |-> IF writeOk THEN [ls EXCEPT ![SEARCH_HISTORY] = stringifyHistory(kept)]
                ELSE ls,
         threw |-> FALSE, setItems |-> 1]

\* storage.js:162-184
addToSearchHistory(ls, city, now, writeOk) ==
    LET Other(item) == ~(item.lat = city.lat /\ item.lon = city.lon)
        history == SelectSeq(getSearchHistory(ls), Other)
        added == <<[lat |-> city.lat, lon |-> city.lon, searchedAt |-> now]>> \o history
        kept == SubSeq(added, 1, Min(MaxHistory, Len(added)))
    IN  [ls |-> IF writeOk THEN [ls EXCEPT ![SEARCH_HISTORY] = stringifyHistory(kept)]
                ELSE ls,
         threw |-> FALSE, setItems |-> 1]

(***************************************************************************)
(* composables/useCities.js.  Each function maps the instance's state st = *)
(* [cities, selectedCities, ls] to the state it leaves, with what it       *)
(* returned (Throws when it raised) and the number of setItem calls made.  *)
(***************************************************************************)
canAddMore(list) == Len(list) < maxCities

\* Bug variant of addCity: the duplicate is noticed only after the push and
\* the write.
addCityChecksLate(st, city, t1, t2, writeOk) ==
    IF ~canAddMore(st.cities)
    THEN [cities |-> st.cities, selectedCities |-> st.selectedCities, ls |-> st.ls,
          ret |-> RetFalse, setItems |-> 0]
    ELSE LET newCity == stamp(city, t1)
             w       == saveCities(st.ls, Append(st.cities, newCity), writeOk)
         IN  [cities |-> Append(st.cities, newCity), selectedCities |-> st.selectedCities,
              ls |-> w.ls,
              ret |-> IF exists(st.cities, city) THEN RetFalse ELSE RetTrue,
              setItems |-> w.setItems]

\* Bug variant of addCity: unshift in place of push.
addCityUnshifts(st, city, t1, t2, writeOk) ==
    IF ~canAddMore(st.cities) \/ exists(st.cities, city)
    THEN [cities |-> st.cities, selectedCities |-> st.selectedCities, ls |-> st.ls,
          ret |-> RetFalse, setItems |-> 0]
    ELSE LET newCity == stamp(city, t1)
             w       == storageAddCity(st.ls, newCity, t2, writeOk)
         IN  [cities |-> <<newCity>> \o st.cities, selectedCities |-> st.selectedCities,
              ls |-> w.ls,
              ret |-> IF w.threw THEN Throws ELSE RetTrue, setItems |-> w.setItems]

addCity(st, city, t1, t2, writeOk) ==
    IF ~canAddMore(st.cities)
    THEN [cities |-> st.cities, selectedCities |-> st.selectedCities, ls |-> st.ls,
          ret |-> RetFalse, setItems |-> 0]
    ELSE IF exists(st.cities, city)
    THEN [cities |-> st.cities, selectedCities |-> st.selectedCities, ls |-> st.ls,
          ret |-> RetFalse, setItems |-> 0]
    ELSE LET newCity == stamp(city, t1)
             pushed  == Append(st.cities, newCity)
             w       == storageAddCity(st.ls, newCity, t2, writeOk)
         IN  [cities |-> pushed, selectedCities |-> st.selectedCities, ls |-> w.ls,
              ret |-> IF w.threw THEN Throws ELSE RetTrue, setItems |-> w.setItems]

\* Bug variants of removeCity: splice(index) without a count, which drops the
\* match and all that follows it; and the selection left as it was.
removeCityTruncates(st, cityId_, writeOk) ==
    LET KeepId(id) == id # cityId_
        index      == indexOf([i \in 1..Len(st.cities) |-> st.cities[i].id], cityId_)
        w          == storageRemoveCity(st.ls, cityId_, writeOk)
    IN  [cities         |-> IF index = -1 THEN st.cities ELSE SubSeq(st.cities, 1, index),
         selectedCities |-> SelectSeq(st.selectedCities, KeepId),
         ls             |-> w.ls,
         ret            |-> Undefined,
         setItems       |-> w.setItems]

removeCityKeepsSelection(st, cityId_, writeOk) ==
    LET KeepCity(c) == c.id # cityId_
        w           == storageRemoveCity(st.ls, cityId_, writeOk)
    IN  [cities         |-> SelectSeq(st.cities, KeepCity),
         selectedCities |-> st.selectedCities,
         ls             |-> w.ls,
         ret            |-> Undefined,
         setItems       |-> w.setItems]

removeCity(st, cityId_, writeOk) ==
    LET KeepCity(c) == c.id # cityId_
        KeepId(id)  == id # cityId_
        w           == storageRemoveCity(st.ls, cityId_, writeOk)
    IN  [cities         |-> SelectSeq(st.cities, KeepCity),
         selectedCities |-> IF w.threw THEN st.selectedCities
                            ELSE SelectSeq(st.selectedCities, KeepId),
         ls             |-> w.ls,
         ret            |-> IF w.threw THEN Throws ELSE Undefined,
         setItems       |-> w.setItems]

reorderCities(st, newOrder, writeOk) ==
    LET w == updateCityOrder(st.ls, newOrder, writeOk)
    IN  [cities |-> newOrder, selectedCities |-> st.selectedCities, ls |-> w.ls,
         ret |-> IF w.threw THEN Throws ELSE Undefined, setItems |-> w.setItems]

\* Bug variant of moved: the two entries exchanged.
movedBySwap(list, fromIndex, toIndex) ==
    [k \in 1..Len(list) |-> IF k = fromIndex + 1 THEN list[toIndex + 1]
                            ELSE IF k = toIndex + 1 THEN list[fromIndex + 1] ELSE list[k]]

\* const [movedCity] = citiesArray.splice(fromIndex, 1); splice(toIndex, 0, movedCity)
moved(list, fromIndex, toIndex) ==
    LET out       == spliceOut(list, fromIndex)
        movedCity == IF out.removed = <<>> THEN Undefined ELSE out.removed[1]
    IN  spliceIn(out.rest, toIndex, movedCity)

moveCity(st, fromIndex, toIndex, writeOk) ==
    reorderCities(st, moved(st.cities, fromIndex, toIndex), writeOk)

\* Bug variant of toggled: the id is pushed whether or not it is present.
toggledAlwaysPushes(selected, cityId_) == Append(selected, cityId_)

toggled(selected, cityId_) ==
    LET index == indexOf(selected, cityId_)
    IN  IF index = -1 THEN Append(selected, cityId_)
        ELSE spliceOut(selected, index).rest

toggleCitySelection(st, cityId_) ==
    [cities |-> st.cities, selectedCities |-> toggled(st.selectedCities, cityId_),
     ls |-> st.ls, ret |-> Undefined, setItems |-> 0]

selectAllCities(st) ==
    [cities |-> st.cities,
     selectedCities |-> [i \in 1..Len(st.cities) |-> st.cities[i].id],
     ls |-> st.ls, ret |-> Undefined, setItems |-> 0]

clearSelection(st) ==
    [cities |-> st.cities, selectedCities |-> <<>>, ls |-> st.ls,
     ret |-> Undefined, setItems |-> 0]

reloadCities(st) ==
    [cities |-> getSavedCities(st.ls), selectedCities |-> st.selectedCities,
     ls |-> st.ls, ret |-> Undefined, setItems |-> 0]

(***************************************************************************)
(* The state machine.                                                      *)
(***************************************************************************)
Current == [cities |-> cities, selectedCities |-> selectedCities, ls |-> localStorage]

\* What every call does to the variables, given the handler's outcome r.
Returned(op, r, writeOk) ==
    /\ cities' = r.cities
    /\ selectedCities' = r.selectedCities
    /\ localStorage' = r.ls
    /\ lastCall' = [op |-> op, ret |-> r.ret, setItems |-> r.setItems,
                    failed |-> (r.setItems > 0 /\ ~writeOk), size |-> Len(cities)]
    /\ UNCHANGED <<weatherVars, preferenceVars, conversion, searchVars, otherCities>>

\* Ids a caller can hold: of cities shown or saved, of selected ones, or any other.
KnownIds ==
    {cities[i].id : i \in 1..Len(cities)}
        \cup SetOf(selectedCities)
        \cup {getSavedCities(localStorage)[i].id : i \in 1..Len(getSavedCities(localStorage))}
        \cup {ForeignId}

\* What a caller of reorderCities passes: a permutation of the current list
\* (the caller's duty, spec section 4.2).  A drag-and-drop step: the list
\* as it is, or with two neighbouring entries exchanged.
Swapped(list) ==
    {list} \cup
    {[k \in 1..Len(list) |-> IF k = i THEN list[i + 1]
                             ELSE IF k = i + 1 THEN list[i] ELSE list[k]] :
        i \in 1..(Len(list) - 1)}

\* The application as it starts on the store it finds.
Constructed ==
    /\ cities = getSavedCities(localStorage)
    /\ selectedCities = <<>>
    /\ clock = 0
    /\ lastCall = [op |-> "useCities", ret |-> Undefined, setItems |-> 0,
                   failed |-> FALSE, size |-> 0]
    /\ lastToggle = NotToggled
    /\ weather = Null
    /\ forecast = Null
    /\ alerts = <<>>
    /\ loading = FALSE
    /\ error = Null
    /\ lastUpdated = Null
    /\ DEFAULT_PREFERENCES = DefaultPreferences
    /\ preferences = getPreferences(localStorage, DEFAULT_PREFERENCES)
    /\ sharesDefaults = TRUE
    /\ unit = getPreferences(localStorage, DEFAULT_PREFERENCES).temperatureUnit
    /\ calls = [c \in Calls |-> "done"]
    /\ conversion = NotConverted
    /\ otherCities = getSavedCities(localStorage)
    /\ query = <<>>
    /\ results = <<>>
    /\ searchLoading = FALSE
    /\ searchError = Null
    /\ showDropdown = FALSE
    /\ timeout = 0
    /\ timers = {}
    /\ searches = <<>>
    /\ burst = [calls |-> 0, last |-> <<>>, since |-> 0, invoked |-> 0,
                started |-> <<>>]

\* The first start: nothing is stored.
Init ==
    /\ localStorage = [k \in STORAGE_KEYS |-> Null]
    /\ Constructed

\* Time passes between two calls.
Tick ==
    /\ clock < MaxClock
    /\ clock' = clock + 1
    /\ UNCHANGED <<cities, selectedCities, localStorage, lastCall, lastToggle, otherCities>>
    /\ UNCHANGED <<weatherVars, preferenceVars, conversion, searchVars>>

\* addCity reads Date.now() at useCities.js:44 (the clock as the call starts)
\* and, on its way through the storage module, again at storage.js:60 (t2):
\* time may pass while the call runs.
AddCity(city, t2, writeOk) ==
    /\ Returned("addCity", addCity(Current, city, clock, t2, writeOk), writeOk)
    /\ clock' = t2
    /\ lastToggle' = NotToggled

RemoveCity(cityId_, writeOk) ==
    /\ Returned("removeCity", removeCity(Current, cityId_, writeOk), writeOk)
    /\ lastToggle' = NotToggled
    /\ UNCHANGED clock

ReorderCities(newOrder, writeOk) ==
    /\ Returned("reorderCities", reorderCities(Current, newOrder, writeOk), writeOk)
    /\ lastToggle' = NotToggled
    /\ UNCHANGED clock

MoveCity(fromIndex, toIndex, writeOk) ==
    /\ Returned("moveCity", moveCity(Current, fromIndex, toIndex, writeOk), writeOk)
    /\ lastToggle' = NotToggled
    /\ UNCHANGED clock

ToggleCitySelection(cityId_) ==
    /\ Returned("toggleCitySelection", toggleCitySelection(Current, cityId_), TRUE)
    /\ lastToggle' = [toggled |-> TRUE, id |-> cityId_, selected |-> selectedCities,
                      twice |-> (lastToggle.toggled /\ lastToggle.id = cityId_)]
    /\ UNCHANGED clock

SelectAllCities ==
    /\ Returned("selectAllCities", selectAllCities(Current), TRUE)
    /\ lastToggle' = NotToggled
    /\ UNCHANGED clock

ClearSelection ==
    /\ Returned("clearSelection", clearSelection(Current), TRUE)
    /\ lastToggle' = NotToggled
    /\ UNCHANGED clock

ReloadCities ==
    /\ Returned("reloadCities", reloadCities(Current), TRUE)
    /\ lastToggle' = NotToggled
    /\ UNCHANGED clock

(***************************************************************************)
(* Spec: the collection and its mirror in the store, with the clock        *)
(* advancing, also between the two readings of one addCity.  Every write   *)
(* succeeds.                                                               *)
(***************************************************************************)
\* Indices in range for moveCity; out of range is left undefined by the code.
Indices == 0..(Len(cities) - 1)

Next ==
    \/ Tick
    \/ \E city \in SearchResults, t2 \in clock..MaxClock : AddCity(city, t2, TRUE)
    \/ \E id \in KnownIds : RemoveCity(id, TRUE)
    \/ \E newOrder \in Swapped(cities) : ReorderCities(newOrder, TRUE)
    \/ \E i \in Indices, j \in Indices : MoveCity(i, j, TRUE)
    \/ ReloadCities

Spec == Init /\ [][Next]_vars

(***************************************************************************)
(* SpecWriteFails: as Spec, with setItem free to throw (quota exceeded) in *)
(* any call.  All calls fall within one clock reading.                     *)
(***************************************************************************)
NextWriteFails ==
    \/ \E city \in SearchResults, writeOk \in BOOLEAN : AddCity(city, clock, writeOk)
    \/ \E id \in KnownIds, writeOk \in BOOLEAN : RemoveCity(id, writeOk)
    \/ \E newOrder \in Swapped(cities), writeOk \in BOOLEAN : ReorderCities(newOrder, writeOk)
    \/ \E i \in Indices, j \in Indices, writeOk \in BOOLEAN : MoveCity(i, j, writeOk)
    \/ ReloadCities

SpecWriteFails == Init /\ [][NextWriteFails]_vars

(***************************************************************************)
(* SpecSelection: the selection of cities for comparison.  All calls fall  *)
(* within one clock reading and every write succeeds.                      *)
(***************************************************************************)
NextSelection ==
    \/ \E city \in SearchResults : AddCity(city, clock, TRUE)
    \/ \E id \in KnownIds : RemoveCity(id, TRUE)
    \/ \E id \in KnownIds : ToggleCitySelection(id)
    \/ SelectAllCities
    \/ ClearSelection

SpecSelection == Init /\ [][NextSelection]_vars

(***************************************************************************)
(* SpecCapacity: more places on offer than the collection can hold.  All   *)
(* calls fall within one clock reading and every write succeeds.           *)
(***************************************************************************)
NextCapacity ==
    \/ \E city \in CapacityResults : AddCity(city, clock, TRUE)
    \/ \E id \in KnownIds : RemoveCity(id, TRUE)
    \/ \E newOrder \in Swapped(cities) : ReorderCities(newOrder, TRUE)
    \/ \E i \in Indices, j \in Indices : MoveCity(i, j, TRUE)

SpecCapacity == Init /\ [][NextCapacity]_vars

(***************************************************************************)
(* The claims.                                                             *)
(***************************************************************************)
SameCoordinates(a, b) == a.lat = b.lat /\ a.lon = b.lon

\* C1: addCity(city) returns true if and only if the collection holds fewer
\* than 6 cities and none of them has both the latitude and the longitude of
\* city; in every other case it returns false.
C1_AddCityReturn ==
    [][lastCall'.op = "addCity" =>
          \A city \in CapacityResults :
             AddCity(city, clock, TRUE) =>
                /\ lastCall'.ret \in {RetTrue, RetFalse}
                /\ lastCall'.ret = RetTrue <=>
                      /\ Len(cities) < 6
                      /\ \A i \in 1..Len(cities) : ~SameCoordinates(cities[i], city)]_vars

\* C1 witness: an add that found 6 cities and returned false.
C1_Witness ==
    /\ lastCall.op = "addCity"
    /\ lastCall.size = 6
    /\ lastCall.ret = RetFalse

\* C2: when addCity returns false, the in-memory list, the selection and the
\* persisted list are unchanged and setItem was not called.  The steps of
\* SpecCapacity all find the selection empty, so the same is asked of the
\* call made with every city selected, and with some other id selected.
C2_RejectedAddChangesNothing ==
    [][lastCall'.op = "addCity" =>
          \A city \in CapacityResults :
             (AddCity(city, clock, TRUE) /\ lastCall'.ret = RetFalse) =>
                /\ cities' = cities
                /\ selectedCities' = selectedCities
                /\ localStorage' = localStorage
                /\ lastCall'.setItems = 0
                /\ \A sel \in {selectAllCities(Current).selectedCities, <<ForeignId>>} :
                      LET r == addCity([cities |-> cities, selectedCities |-> sel,
                                        ls |-> localStorage], city, clock, clock, TRUE)
                      IN  /\ r.ret = RetFalse
                          /\ r.cities = cities
                          /\ r.selectedCities = sel
                          /\ r.ls = localStorage
                          /\ r.setItems = 0]_vars

\* C2 witness: an add rejected below capacity (its coordinates were present),
\* with a saved list in the store.
C2_Witness ==
    /\ lastCall.op = "addCity"
    /\ lastCall.ret = RetFalse
    /\ lastCall.size \in 1..5
    /\ Len(getSavedCities(localStorage)) = lastCall.size

\* C4: the in-memory list holds at most 6 cities and no two of them have
\* equal latitude and longitude.
C4_BoundedAndDeduplicated ==
    /\ Len(cities) <= 6
    /\ \A i \in 1..Len(cities), j \in 1..Len(cities) :
          i # j => ~SameCoordinates(cities[i], cities[j])

\* C4 witness: a full collection, reordered since it was filled.
C4_Witness ==
    /\ Len(cities) = 6
    /\ lastCall.op \in {"moveCity", "reorderCities"}

\* s without its k-th entry (k counted from 1)
Without(s, k) == SubSeq(s, 1, k - 1) \o SubSeq(s, k + 1, Len(s))

\* C3: with no storage write failing, the list persisted under the
\* saved-cities key equals the in-memory list (same cities, same ids, same
\* order), so that reloadCities() would leave the in-memory list unchanged.
C3_PersistedEqualsMemory ==
    /\ getSavedCities(localStorage) = cities
    /\ reloadCities(Current).cities = cities

\* C5: a successful addCity appends the new city as the last element: the
\* size grows by exactly one and the cities present keep their positions.
C5_AddAppends ==
    [][lastCall'.op = "addCity" =>
          \A city \in SearchResults, t2 \in clock..MaxClock :
             (AddCity(city, t2, TRUE) /\ lastCall'.ret = RetTrue) =>
                /\ Len(cities') = Len(cities) + 1
                /\ SubSeq(cities', 1, Len(cities)) = cities
                /\ SameCoordinates(cities'[Len(cities')], city)]_vars

\* C5 witness: a successful add to a collection of two.
C5_Witness ==
    /\ lastCall.op = "addCity"
    /\ lastCall.ret = RetTrue
    /\ lastCall.size = 2
    /\ Len(cities) = 3

\* C6: removeCity(id) removes exactly the city whose id is id and leaves the
\* others in their order; when no city has that id the list is unchanged; no
\* error is raised either way.
C6_RemoveExactlyTheMatch ==
    [][lastCall'.op = "removeCity" =>
          \A id \in KnownIds :
             RemoveCity(id, TRUE) =>
                /\ lastCall'.ret # Throws
                /\ IF \A i \in 1..Len(cities) : cities[i].id # id
                   THEN cities' = cities
                   ELSE \E k \in 1..Len(cities) :
                           cities[k].id = id /\ cities' = Without(cities, k)]_vars

\* C6 witness: a removal from a collection of three that left two.
C6_Witness ==
    /\ lastCall.op = "removeCity"
    /\ lastCall.size = 3
    /\ Len(cities) = 2

\* C8: for indices 0 <= from < n and 0 <= to < n, moveCity(from, to) yields a
\* permutation of the list with the city formerly at from now at to and the
\* others in their relative order; move(0, 2) on [A,B,C] yields [B,C,A].
C8_MoveRelocatesOne ==
    [][lastCall'.op = "moveCity" =>
          /\ moved(<<"A", "B", "C">>, 0, 2) = <<"B", "C", "A">>
          /\ \A from \in Indices, to \in Indices :
                MoveCity(from, to, TRUE) =>
                   /\ Len(cities') = Len(cities)
                   /\ cities'[to + 1] = cities[from + 1]
                   /\ Without(cities', to + 1) = Without(cities, from + 1)]_vars

\* C8 witness: a move within a collection of three.
C8_Witness ==
    /\ lastCall.op = "moveCity"
    /\ lastCall.size = 3
    /\ Len(cities) = 3

\* C7: removeCity(id) removes id from the selection if it was selected and
\* leaves every other selected id selected.
C7_RemoveDeselects ==
    [][lastCall'.op = "removeCity" =>
          \A id \in KnownIds :
             RemoveCity(id, TRUE) =>
                /\ SetOf(selectedCities') = SetOf(selectedCities) \ {id}
                /\ Len(selectedCities') =
                      Len(selectedCities) - Cardinality(SetOf(selectedCities) \cap {id})]_vars

\* C7 witness: a removal from three cities that left two, both selected.
C7_Witness ==
    /\ lastCall.op = "removeCity"
    /\ lastCall.size = 3
    /\ Len(cities) = 2
    /\ SetOf(selectedCities) = {cities[1].id, cities[2].id}

\* C9: calling toggleCitySelection(id) twice in succession leaves the set of
\* selected ids as it was before the two calls, and the city list unchanged.
C9_ToggleTwice ==
    [][(lastToggle'.toggled /\ ToggleCitySelection(lastToggle'.id)) =>
          /\ cities' = cities
          /\ (lastToggle.toggled /\ lastToggle.id = lastToggle'.id) =>
                SetOf(selectedCities') = SetOf(lastToggle.selected)]_vars

\* C9 witness: the second of two successive toggles of one id, which is
\* selected again among others.
C9_Witness ==
    /\ lastToggle.toggled
    /\ lastToggle.twice
    /\ lastToggle.id \in SetOf(selectedCities)
    /\ Len(selectedCities) >= 2

\* C10: if setItem throws during addCity, removeCity, reorderCities or
\* moveCity, the call does not raise and the in-memory list reflects the
\* mutation (addCity still returns true).
C10_WriteFailureSwallowed ==
    [][lastCall'.failed =>
          /\ lastCall'.op = "addCity" =>
                \A city \in SearchResults :
                   AddCity(city, clock, FALSE) =>
                      /\ lastCall'.ret = RetTrue
                      /\ Len(cities') = Len(cities) + 1
                      /\ SameCoordinates(cities'[Len(cities')], city)
          /\ lastCall'.op = "removeCity" =>
                \A id \in KnownIds :
                   RemoveCity(id, FALSE) =>
                      /\ lastCall'.ret # Throws
                      /\ \A i \in 1..Len(cities') : cities'[i].id # id
          /\ lastCall'.op = "reorderCities" =>
                \A newOrder \in Swapped(cities) :
                   ReorderCities(newOrder, FALSE) =>
                      /\ lastCall'.ret # Throws
                      /\ cities' = newOrder
          /\ lastCall'.op = "moveCity" =>
                \A from \in Indices, to \in Indices :
                   MoveCity(from, to, FALSE) =>
                      /\ lastCall'.ret # Throws
                      /\ cities'[to + 1] = cities[from + 1]]_vars

\* C10 witness: an add whose write failed: it returned true, and the city is
\* in memory but not in the store.
C10_Witness ==
    /\ lastCall.op = "addCity"
    /\ lastCall.failed
    /\ lastCall.ret = RetTrue
    /\ Len(cities) = Len(getSavedCities(localStorage)) + 1

\* C11: a city is added, then removed, and a city with the same coordinates
\* is added again: the id given by the second add differs from the id given
\* by the first, whatever the clock reads at the second add.  Asked at the
\* step that removes the city: an add of its coordinates made afterwards, at
\* any reading the clock can then show, gets another id.
C11_ReaddedIdDiffers ==
    [][lastCall'.op = "removeCity" =>
          \A k \in 1..Len(cities) :
             RemoveCity(cities[k].id, TRUE) =>
                \A now \in clock'..MaxClock :
                   LET r == addCity([cities |-> cities',
                                     selectedCities |-> selectedCities',
                                     ls |-> localStorage'],
                                    [lat |-> cities[k].lat, lon |-> cities[k].lon],
                                    now, now, TRUE)
                   IN  r.ret = RetTrue =>
                          r.cities[Len(r.cities)].id # cities[k].id]_vars

(***************************************************************************)
(* JavaScript numbers.  The temperatures are IEEE 754 doubles; a finite    *)
(* double is kept as sign, significand and exponent, of value              *)
(* (-1)^neg * m * 2^e, the significand m an odd natural of at most         *)
(* Precision bits (or zero).  A natural is a sequence of digits in base    *)
(* 2^LimbBits, most significant first, without leading zero; zero is the   *)
(* empty sequence.  Each arithmetic operation yields the double nearest    *)
(* the exact result, ties to the even significand.  The magnitudes met     *)
(* here are far from the overflow and subnormal ranges, which are left     *)
(* out.                                                                    *)
(***************************************************************************)
Precision == 53

LimbBits == 15

Base == 2 ^ LimbBits

RECURSIVE limbsOf(_)
\* a natural number of the model as a sequence of digits
limbsOf(n) == IF n = 0 THEN <<>> ELSE Append(limbsOf(n \div Base), n % Base)

zeros(k) == [i \in 1..k |-> 0]

RECURSIVE stripLeading(_)
stripLeading(b) == IF b # <<>> /\ b[1] = 0 THEN stripLeading(Tail(b)) ELSE b

padTo(b, n) == zeros(n - Len(b)) \o b

\* The digit loops below read their carry and their accumulator in the test
\* of each step, so that both are computed digit by digit.
RECURSIVE addRec(_, _, _, _, _)
addRec(a, b, i, carry, acc) ==
    IF carry + Len(acc) >= 0 /\ i = 0 THEN acc
    ELSE LET sum == a[i] + b[i] + carry
         IN  addRec(a, b, i - 1, sum \div Base, <<sum % Base>> \o acc)

\* a + b on naturals
magAdd(a, b) ==
    LET n == Max(Len(a), Len(b)) + 1
    IN  stripLeading(addRec(padTo(a, n), padTo(b, n), n, 0, <<>>))

RECURSIVE subRec(_, _, _, _, _)
subRec(a, b, i, borrow, acc) ==
    IF borrow + Len(acc) >= 0 /\ i = 0 THEN acc
    ELSE LET diff == a[i] - b[i] - borrow
         IN  subRec(a, b, i - 1, IF diff < 0 THEN 1 ELSE 0, <<diff % Base>> \o acc)

\* a - b on naturals, a >= b
magSub(a, b) ==
    LET n == Max(Len(a), Len(b))
    IN  stripLeading(subRec(padTo(a, n), padTo(b, n), n, 0, <<>>))

\* a < b on naturals
magLess(a, b) ==
    IF Len(a) # Len(b) THEN Len(a) < Len(b)
    ELSE \E i \in 1..Len(a) :
            /\ a[i] < b[i]
            /\ \A j \in 1..(i - 1) : a[j] = b[j]

RECURSIVE mulRec(_, _, _, _, _)
mulRec(a, k, i, carry, acc) ==
    IF carry + Len(acc) >= 0 /\ i = 0 THEN limbsOf(carry) \o acc
    ELSE LET prod == a[i] * k + carry
         IN  mulRec(a, k, i - 1, prod \div Base, <<prod % Base>> \o acc)

\* a * k on a natural, k a small natural
magTimes(a, k) == stripLeading(mulRec(a, k, Len(a), 0, <<>>))

RECURSIVE divRec(_, _, _, _, _)
divRec(a, d, i, rem, quot) ==
    IF rem + Len(quot) >= 0 /\ i > Len(a) THEN [q |-> stripLeading(quot), r |-> rem]
    ELSE LET v == Base * rem + a[i]
         IN  divRec(a, d, i + 1, v % d, Append(quot, v \div d))

\* quotient and remainder of a natural by a small positive natural
magDiv(a, d) == divRec(a, d, 1, 0, <<>>)

\* the number of bits of a natural
bitLength(a) ==
    IF a = <<>> THEN 0
    ELSE (Len(a) - 1) * LimbBits
            + (CHOOSE w \in 1..LimbBits : a[1] < 2 ^ w /\ a[1] >= 2 ^ (w - 1))

\* a * 2^s
shiftLeft(a, s) ==
    IF a = <<>> THEN <<>>
    ELSE magTimes(a, 2 ^ (s % LimbBits)) \o zeros(s \div LimbBits)

\* a \div 2^s, and whether bits were lost; s less than the bits of a
shiftRight(a, s) ==
    LET whole == s \div LimbBits
        dv == magDiv(SubSeq(a, 1, Len(a) - whole), 2 ^ (s % LimbBits))
    IN  [q |-> dv.q,
         inexact |-> dv.r # 0 \/ \E i \in (Len(a) - whole + 1)..Len(a) : a[i] # 0]

\* the number of zero bits at the end of a natural other than zero
trailingZeros(a) ==
    LET last == CHOOSE i \in 1..Len(a) :
                   a[i] # 0 /\ \A j \in (i + 1)..Len(a) : a[j] = 0
        bits == CHOOSE r \in 0..(LimbBits - 1) :
                   a[last] % (2 ^ r) = 0 /\ a[last] % (2 ^ (r + 1)) # 0
    IN  (Len(a) - last) * LimbBits + bits

Zero == [neg |-> FALSE, m |-> <<>>, e |-> 0]

\* the canonical form: an odd significand
canon(neg, m, e) ==
    LET b == stripLeading(m)
    IN  IF b = <<>> THEN Zero
        ELSE [neg |-> neg, m |-> shiftRight(b, trailingZeros(b)).q,
              e |-> e + trailingZeros(b)]

negate(a) == IF a.m = <<>> THEN a ELSE [a EXCEPT !.neg = ~a.neg]

\* the exact sum of two numbers
exactPlus(a, b) ==
    LET e == Min(a.e, b.e)
        am == shiftLeft(a.m, a.e - e)
        bm == shiftLeft(b.m, b.e - e)
    IN  IF a.neg = b.neg THEN canon(a.neg, magAdd(am, bm), e)
        ELSE IF magLess(am, bm) THEN canon(b.neg, magSub(bm, am), e)
        ELSE canon(a.neg, magSub(am, bm), e)

\* the exact product of a number and a small natural
exactTimes(a, k) == canon(a.neg, magTimes(a.m, k), a.e)

\* the double nearest x / d (round to nearest, ties to even), d a small
\* positive natural: the quotient is taken to more than Precision bits,
\* cut after one bit more than Precision, and rounded on that bit
nearest(x, d) ==
    IF x.m = <<>> THEN Zero
    ELSE LET s == Max(0, Precision + 2 + bitLength(limbsOf(d)) - bitLength(x.m))
             dv == magDiv(shiftLeft(x.m, s), d)
             t == bitLength(dv.q) - Precision
             cut == shiftRight(dv.q, t - 1)
             half == magDiv(cut.q, 2)
             sticky == dv.r # 0 \/ cut.inexact
             up == half.r = 1 /\ (sticky \/ half.q[Len(half.q)] % 2 = 1)
         IN  canon(x.neg, IF up THEN magAdd(half.q, <<1>>) ELSE half.q, x.e - s + t)

\* the number literal n / 10^k: n hundredths are Decimal(n, 100)
Decimal(n, scale) ==
    nearest([neg |-> n < 0, m |-> limbsOf(IF n < 0 THEN -n ELSE n), e |-> 0], scale)

Integer(n) == Decimal(n, 1)

\* a + b, a - b, a * k, a / k as JavaScript computes them
plus(a, b) == nearest(exactPlus(a, b), 1)
minus(a, b) == nearest(exactPlus(a, negate(b)), 1)
times(a, k) == nearest(exactTimes(a, k), 1)
dividedBy(a, k) == nearest(a, k)

\* a * b as JavaScript computes it: the digits of b taken one by one
product(a, b) ==
    LET RECURSIVE rows(_)
        rows(i) == IF i = 0 THEN <<>>
                   ELSE magAdd(rows(i - 1) \o <<0>>, magTimes(a.m, b.m[i]))
    IN  nearest(canon(a.neg # b.neg, rows(Len(b.m)), a.e + b.e), 1)

\* Math.round: the integer nearest x, a tie going up, which is the floor of
\* the exact x + 1/2; the result as an integer of the model
MathRound(x) ==
    LET y == exactPlus(x, [neg |-> FALSE, m |-> <<1>>, e |-> -1])
        whole == IF y.m = <<>> THEN <<>>
                 ELSE IF y.e >= 0 THEN shiftLeft(y.m, y.e)
                 ELSE IF -y.e >= bitLength(y.m) THEN <<>>
                 ELSE shiftRight(y.m, -y.e).q
        RECURSIVE value(_)
        value(k) == IF k = 0 THEN 0 ELSE value(k - 1) * Base + whole[k]
    IN  IF y.neg THEN -(value(Len(whole)) + (IF y.e < 0 THEN 1 ELSE 0))
        ELSE value(Len(whole))

\* a <= b, a < b
atMost(a, b) ==
    LET d == exactPlus(a, negate(b)) IN d.m = <<>> \/ d.neg
below(a, b) ==
    LET d == exactPlus(a, negate(b)) IN d.m # <<>> /\ d.neg

(***************************************************************************)
(* helpers.js: the forecast aggregation.  A forecast item is kept as       *)
(* [dt, temp, main, icon] for item.dt, item.main.temp, item.weather[0].main*)
(* and item.weather[0].icon.  The humidity and wind averages of a summary  *)
(* are computed from fields of their own and are left out.                 *)
(***************************************************************************)
SecondsPerDay == 86400

\* new Date(dt * 1000).toDateString(): the calendar day of the instant, here
\* in a runtime whose time zone is UTC; the day is named by its number.
toDateString(dt) == dt \div SecondsPerDay

\* the position of the entry of dailyData under the key date, 0 if none
keyIndex(dailyData, date) ==
    IF \E i \in 1..Len(dailyData) : dailyData[i].key = date
    THEN CHOOSE i \in 1..Len(dailyData) : dailyData[i].key = date
    ELSE 0

\* the body of the forEach of processForecastData (helpers.js:300-318);
\* dailyData is an object with date-string keys, whose entries keep the order
\* in which the keys were first set
collect(dailyData, item) ==
    LET date == toDateString(item.dt)
        at == keyIndex(dailyData, date)
        opened == IF at = 0
                  THEN Append(dailyData, [key |-> date, date |-> item.dt,
                                          temps |-> <<>>, conditions |-> <<>>,
                                          icons |-> <<>>])
                  ELSE dailyData
        k == IF at = 0 THEN Len(opened) ELSE at
    IN  [opened EXCEPT ![k].temps = Append(@, item.temp),
                       ![k].conditions = Append(@, item.main),
                       ![k].icons = Append(@, item.icon)]

RECURSIVE forEach(_, _)
\* forecastList.forEach(item => ...), starting from dailyData = {}
forEach(forecastList, n) ==
    IF n = 0 THEN <<>>
    ELSE collect(forEach(forecastList, n - 1), forecastList[n])

\* Math.min(...temps), Math.max(...temps)
MathMin(temps) ==
    CHOOSE t \in {temps[i] : i \in 1..Len(temps)} :
       \A i \in 1..Len(temps) : atMost(t, temps[i])
MathMax(temps) ==
    CHOOSE t \in {temps[i] : i \in 1..Len(temps)} :
       \A i \in 1..Len(temps) : atMost(temps[i], t)

RECURSIVE reduce(_, _)
\* temps.reduce((a, b) => a + b, 0) over the first n entries
reduce(temps, n) ==
    IF n = 0 THEN Zero ELSE plus(reduce(temps, n - 1), temps[n])

\* the counts of getMostFrequent after its first n items
count(arr, n, item) == Cardinality({i \in 1..n : arr[i] = item})

RECURSIVE mostFrequentAfter(_, _)
\* maxCount and maxItem of getMostFrequent after its first n items
\* (helpers.js:339-349)
mostFrequentAfter(arr, n) ==
    IF n = 0 THEN [maxCount |-> 0, maxItem |-> arr[1]]
    ELSE LET before == mostFrequentAfter(arr, n - 1)
             c == count(arr, n, arr[n])
         IN  IF c > before.maxCount
             THEN [maxCount |-> c, maxItem |-> arr[n]]
             ELSE before

\* helpers.js:338-352, on a non-empty array
getMostFrequent(arr) == mostFrequentAfter(arr, Len(arr)).maxItem

\* the summary of one entry of dailyData (helpers.js:320-329)
summary(day) ==
    [date |-> day.date,
     tempMin |-> MathMin(day.temps),
     tempMax |-> MathMax(day.temps),
     tempAvg |-> dividedBy(reduce(day.temps, Len(day.temps)), Len(day.temps)),
     condition |-> getMostFrequent(day.conditions),
     icon |-> getMostFrequent(day.icons)]

\* Array.prototype.slice(0, end)
slice(s, end) == SubSeq(s, 1, Min(end, Len(s)))

MaxDays == 5

\* Bug variant of processForecastData: the last groups are kept instead of
\* the first.
processForecastDataLatest(forecastList) ==
    LET dailyData == forEach(forecastList, Len(forecastList))
        all == [i \in 1..Len(dailyData) |-> summary(dailyData[i])]
    IN  SubSeq(all, Max(1, Len(all) - MaxDays + 1), Len(all))

\* helpers.js:297-331
processForecastData(forecastList) ==
    LET dailyData == forEach(forecastList, Len(forecastList))
    IN  slice([i \in 1..Len(dailyData) |-> summary(dailyData[i])], MaxDays)

\* Bug variant of convertTemperature: a source unit that is not celsius is
\* taken for fahrenheit, and the other way round.
convertTemperatureAssumes(temp, from, to) ==
    IF from = to THEN temp
    ELSE IF to = "fahrenheit"
         THEN plus(dividedBy(times(temp, 9), 5), Integer(32))
    ELSE IF to = "celsius"
         THEN dividedBy(times(minus(temp, Integer(32)), 5), 9)
    ELSE temp

\* Bug variant of convertTemperature: the offset is taken off after scaling.
convertTemperatureOffsetLate(temp, from, to) ==
    IF from = to THEN temp
    ELSE IF from = "celsius" /\ to = "fahrenheit"
         THEN plus(dividedBy(times(temp, 9), 5), Integer(32))
    ELSE IF from = "fahrenheit" /\ to = "celsius"
         THEN minus(dividedBy(times(temp, 5), 9), Integer(32))
    ELSE temp

\* helpers.js:8-20; temp * 9/5 is (temp * 9) / 5 and (temp - 32) * 5/9 is
\* ((temp - 32) * 5) / 9, each operation rounded
convertTemperature(temp, from, to) ==
    IF from = to THEN temp
    ELSE IF from = "celsius" /\ to = "fahrenheit"
         THEN plus(dividedBy(times(temp, 9), 5), Integer(32))
    ELSE IF from = "fahrenheit" /\ to = "celsius"
         THEN dividedBy(times(minus(temp, Integer(32)), 5), 9)
    ELSE temp

(***************************************************************************)
(* composables/useWeather.js.  A ref that holds null or an object is the   *)
(* empty sequence or the sequence of that one object.  Each function maps  *)
(* the instance's state st to the state it leaves; fetchWeatherData is cut *)
(* at its awaits, and a call c is at "weather", "forecast" or "alerts"     *)
(* while it awaits that request, and "done" otherwise.  The instance is    *)
(* one whose city has a latitude and a longitude (useWeather.js:76).       *)
(***************************************************************************)
Some(x) == <<x>>

WeatherState ==
    [weather |-> weather, forecast |-> forecast, alerts |-> alerts,
     loading |-> loading, error |-> error, lastUpdated |-> lastUpdated,
     unit |-> unit, calls |-> calls]

\* useWeather.js:22-28
currentTemp(st) ==
    IF st.weather = Null THEN Null
    ELSE IF st.unit = "fahrenheit"
         THEN Some(convertTemperature(st.weather[1].temp, "celsius", "fahrenheit"))
         ELSE Some(st.weather[1].temp)

\* useWeather.js:54-68
dailyForecast(st) ==
    IF st.forecast = Null THEN <<>>
    ELSE LET processed == processForecastData(st.forecast[1].list)
         IN  IF st.unit = "fahrenheit"
             THEN [i \in 1..Len(processed) |->
                     [processed[i] EXCEPT
                        !.tempMin = convertTemperature(@, "celsius", "fahrenheit"),
                        !.tempMax = convertTemperature(@, "celsius", "fahrenheit"),
                        !.tempAvg = convertTemperature(@, "celsius", "fahrenheit")]]
             ELSE processed

\* useWeather.js:75-83: up to the first await
fetchWeatherData(st, c) ==
    [st EXCEPT !.loading = TRUE, !.error = Null, !.calls[c] = "weather"]

\* useWeather.js:84-87
weatherResponds(st, c, weatherData) ==
    [st EXCEPT !.weather = Some(weatherData), !.calls[c] = "forecast"]

\* useWeather.js:88-92
forecastResponds(st, c, forecastData) ==
    [st EXCEPT !.forecast = Some(forecastData), !.calls[c] = "alerts"]

\* useWeather.js:93-99 and 103-105; getWeatherAlerts never throws
\* (weatherApi.js:107-110)
alertsRespond(st, c, alertsData, now) ==
    [st EXCEPT !.alerts = alertsData, !.lastUpdated = Some(now),
               !.loading = FALSE, !.calls[c] = "done"]

\* useWeather.js:100-105: getCurrentWeather or getForecast threw
requestFails(st, c, message) ==
    [st EXCEPT !.error = Some(message), !.loading = FALSE, !.calls[c] = "done"]

\* Bug variant of setUnit: the data is fetched again in the new unit.
setUnitRefetches(st, newUnit) ==
    [st EXCEPT !.unit = newUnit, !.loading = TRUE, !.error = Null,
               !.weather = Null, !.forecast = Null]

\* useWeather.js:112-114
setUnit(st, newUnit) == [st EXCEPT !.unit = newUnit]

\* What every step of a useWeather instance does to the variables.
Leaves(op, r) ==
    /\ weather' = r.weather
    /\ forecast' = r.forecast
    /\ alerts' = r.alerts
    /\ loading' = r.loading
    /\ error' = r.error
    /\ lastUpdated' = r.lastUpdated
    /\ unit' = r.unit
    /\ calls' = r.calls
    /\ lastCall' = [op |-> op, ret |-> Undefined, setItems |-> 0, failed |-> FALSE,
                    size |-> Len(cities)]
    /\ UNCHANGED <<cityVars, localStorage, clock, preferenceVars, conversion,
                   otherCities, searchVars>>

FetchWeatherData(c) ==
    /\ calls[c] = "done"
    /\ Leaves("fetchWeatherData", fetchWeatherData(WeatherState, c))

WeatherResponds(c, weatherData) ==
    /\ calls[c] = "weather"
    /\ Leaves("getCurrentWeather", weatherResponds(WeatherState, c, weatherData))

WeatherFails(c) ==
    /\ calls[c] = "weather"
    /\ Leaves("getCurrentWeather", requestFails(WeatherState, c, "Weather API error: 500"))

ForecastResponds(c, forecastData) ==
    /\ calls[c] = "forecast"
    /\ Leaves("getForecast", forecastResponds(WeatherState, c, forecastData))

ForecastFails(c) ==
    /\ calls[c] = "forecast"
    /\ Leaves("getForecast", requestFails(WeatherState, c, "Forecast API error: 500"))

AlertsRespond(c, alertsData) ==
    /\ calls[c] = "alerts"
    /\ Leaves("getWeatherAlerts", alertsRespond(WeatherState, c, alertsData, clock))

SetUnit(newUnit) ==
    Leaves("setUnit", setUnit(WeatherState, newUnit))

(***************************************************************************)
(* What the provider answers.  A temperature arrives as a decimal literal  *)
(* of two places, which response.json() turns into the nearest double.     *)
(***************************************************************************)
Reading(hundredths, main, icon) ==
    [temp |-> Decimal(hundredths, 100), main |-> main, icon |-> icon]

\* The readings of a forecast, by position in the list: the first six of
\* the day of specification section 8, and a run with equal temperatures
\* and with conditions that tie.
Profiles ==
    { << Reading(1800, "Clear", "01d"), Reading(2000, "Clear", "01d"),
         Reading(2200, "Clouds", "03d"), Reading(2400, "Clear", "01n"),
         Reading(2300, "Rain", "10d"), Reading(2100, "Clear", "01n") >>,
      << Reading(10, "Rain", "10d"), Reading(10, "Clear", "10n"),
         Reading(10, "Clear", "01d"), Reading(30, "Rain", "01d"),
         Reading(-250, "Clouds", "03d"), Reading(5, "Clouds", "03d") >> }

\* The calendar day of the k-th date to appear in a forecast list: in
\* calendar order, and out of it.
DayOrders == { <<0, 1, 2, 3, 4, 5>>, <<3, 1, 5, 0, 4, 2>> }

\* One date more than a result holds.
MaxSamples == MaxDays + 1

\* Which date each item of a list of n items belongs to, the dates numbered
\* as they first appear.
Patterns(n) ==
    {pat \in [1..n -> 1..n] :
        \A i \in 1..n :
           \/ i = 1 /\ pat[i] = 1
           \/ i > 1 /\ \E j \in 1..(i - 1) : pat[i] <= pat[j] + 1}

ThreeHours == 10800

\* The forecast lists: up to MaxSamples items three hours apart within
\* their day.
ForecastLists ==
    UNION {{[i \in 1..n |->
               [dt   |-> order[pat[i]] * SecondsPerDay + (i - 1) * ThreeHours,
                temp |-> profile[i].temp,
                main |-> profile[i].main,
                icon |-> profile[i].icon]] :
              order \in DayOrders, pat \in Patterns(n), profile \in Profiles} :
           n \in 0..MaxSamples}

\* The day of specification section 8: eight items of one date.
ExampleDay ==
    LET temps == <<1800, 2000, 2200, 2400, 2300, 2100, 1900, 1700>>
        mains == <<"Clear", "Clear", "Clouds", "Clear", "Rain", "Clear", "Clear", "Clear">>
    IN  [i \in 1..8 |->
           [dt |-> (i - 1) * ThreeHours, temp |-> Decimal(temps[i], 100),
            main |-> mains[i], icon |-> "01d"]]

ForecastData == {[list |-> l] : l \in ForecastLists \cup {ExampleDay}}

\* weatherData, as [temp, speed] for main.temp and wind.speed
WeatherData ==
    {[temp |-> Decimal(1834, 100), speed |-> Decimal(412, 100)],
     [temp |-> Decimal(-5, 100), speed |-> Integer(10)]}

(***************************************************************************)
(* SpecForecast: the first fetch of an instance, over the forecast lists.  *)
(***************************************************************************)
NextForecast ==
    \/ lastUpdated = Null /\ error = Null /\ FetchWeatherData(1)
    \/ WeatherResponds(1, [temp |-> Decimal(1834, 100)])
    \/ \E forecastData \in ForecastData : ForecastResponds(1, forecastData)
    \/ AlertsRespond(1, <<>>)

SpecForecast == Init /\ [][NextForecast]_vars

\* the calendar dates of a forecast list
DatesOf(list) == {toDateString(list[i].dt) : i \in 1..Len(list)}

\* the position at which a date first appears in the list
FirstSeen(list, date) ==
    CHOOSE i \in 1..Len(list) :
       /\ toDateString(list[i].dt) = date
       /\ \A j \in 1..(i - 1) : toDateString(list[j].dt) # date

\* the i-th date to appear in the list
DateSeen(list, i) ==
    CHOOSE date \in DatesOf(list) :
       Cardinality({d \in DatesOf(list) : FirstSeen(list, d) < FirstSeen(list, date)}) = i - 1

\* the items of one date, in list order
SamplesOf(list, date) ==
    LET OfDate(item) == toDateString(item.dt) = date
    IN  SelectSeq(list, OfDate)

\* C12: processForecastData emits one summary per calendar date for the
\* first min(5, k) of the k distinct dates of its input, in the order in
\* which the dates first appear; the i-th summary is that of exactly the
\* items of the i-th date to appear, and an empty input gives an empty result.
C12_OneSummaryPerDateFirstSeen ==
    forecast # Null =>
       LET list == forecast[1].list
           out == processForecastData(list)
       IN  /\ Len(out) = Min(5, Cardinality(DatesOf(list)))
           /\ list = <<>> => out = <<>>
           /\ \A i \in 1..Len(out) :
                 LET of == SamplesOf(list, DateSeen(list, i))
                 IN  out[i] = summary([key |-> DateSeen(list, i),
                                       date |-> of[1].dt,
                                       temps |-> [n \in 1..Len(of) |-> of[n].temp],
                                       conditions |-> [n \in 1..Len(of) |-> of[n].main],
                                       icons |-> [n \in 1..Len(of) |-> of[n].icon]])

\* C12 witness: a list of six dates that come out of calendar order, and
\* five summaries for it.
C12_Witness ==
    /\ forecast # Null
    /\ Cardinality(DatesOf(forecast[1].list)) = 6
    /\ \E i \in 1..5 : forecast[1].list[i].dt > forecast[1].list[i + 1].dt
    /\ Len(processForecastData(forecast[1].list)) = 5

\* C13: every daily summary has tempMin <= tempAvg <= tempMax.
C13_AverageBetweenMinAndMax ==
    forecast # Null =>
       LET out == processForecastData(forecast[1].list)
       IN  \A i \in 1..Len(out) :
              /\ atMost(out[i].tempMin, out[i].tempAvg)
              /\ atMost(out[i].tempAvg, out[i].tempMax)

RECURSIVE exactSum(_, _)
\* the exact sum of the first n of the temperatures
exactSum(temps, n) ==
    IF n = 0 THEN Zero ELSE exactPlus(exactSum(temps, n - 1), temps[n])

\* C14: for every day group tempMin is the smallest and tempMax the largest
\* of the temperatures of the date's items, and tempAvg is their arithmetic
\* mean (the number nearest to it).
C14_MinMaxMean ==
    forecast # Null =>
       LET list == forecast[1].list
           out == processForecastData(list)
       IN  \A i \in 1..Len(out) :
              LET of == SamplesOf(list, DateSeen(list, i))
                  temps == [n \in 1..Len(of) |-> of[n].temp]
              IN  /\ \E n \in 1..Len(temps) : out[i].tempMin = temps[n]
                  /\ \A n \in 1..Len(temps) : atMost(out[i].tempMin, temps[n])
                  /\ \E n \in 1..Len(temps) : out[i].tempMax = temps[n]
                  /\ \A n \in 1..Len(temps) : atMost(temps[n], out[i].tempMax)
                  /\ out[i].tempAvg = nearest(exactSum(temps, Len(temps)), Len(temps))

\* the number of times a value occurs in an array
Occurrences(arr, value) == Cardinality({n \in 1..Len(arr) : arr[n] = value})

\* the value of the highest count whose first occurrence comes earliest
Dominant(arr) ==
    arr[CHOOSE n \in 1..Len(arr) :
           /\ \A m \in 1..Len(arr) : Occurrences(arr, arr[m]) <= Occurrences(arr, arr[n])
           /\ \A m \in 1..(n - 1) : Occurrences(arr, arr[m]) < Occurrences(arr, arr[n])]

\* C15: for every day group the reported condition, and likewise the icon,
\* is a value of the highest count among the date's items, and among values
\* that tie for it the one whose first occurrence comes earliest.
C15_DominantEarliestOnTie ==
    forecast # Null =>
       LET list == forecast[1].list
           out == processForecastData(list)
       IN  \A i \in 1..Len(out) :
              LET of == SamplesOf(list, DateSeen(list, i))
              IN  /\ out[i].condition = Dominant([n \in 1..Len(of) |-> of[n].main])
                  /\ out[i].icon = Dominant([n \in 1..Len(of) |-> of[n].icon])

(***************************************************************************)
(* SpecConversion: convertTemperature on its own.  The function keeps no   *)
(* state, so a behaviour is one call: a temperature of up to two decimal   *)
(* places in whole degrees, tenths or hundredths, between two units, one   *)
(* of them a unit the function does not know.                              *)
(***************************************************************************)
TempRange == 50

Temperatures ==
    {Decimal(n, scale) : n \in (-TempRange)..TempRange, scale \in {1, 10, 100}}

Units == {"celsius", "fahrenheit", "kelvin"}

ConvertTemperature(temp, from, to) ==
    /\ ~conversion.called
    /\ conversion' = [called |-> TRUE, temp |-> temp, from |-> from, to |-> to,
                      result |-> convertTemperature(temp, from, to)]
    /\ UNCHANGED <<cityVars, localStorage, clock, lastCall, weatherVars, preferenceVars,
                   otherCities, searchVars>>

NextConversion ==
    \E temp \in Temperatures, from \in Units, to \in Units :
       ConvertTemperature(temp, from, to)

SpecConversion == Init /\ [][NextConversion]_vars

\* C16: convertTemperature(x, from, to) returns x unchanged when from equals
\* to, and for every pair of units other than celsius to fahrenheit and
\* fahrenheit to celsius.
C16_IdentityOutsideTheTwoConversions ==
    (/\ conversion.called
     /\ \/ conversion.from = conversion.to
        \/ <<conversion.from, conversion.to>> \notin
              {<<"celsius", "fahrenheit">>, <<"fahrenheit", "celsius">>})
    => conversion.result = conversion.temp

\* C16 witness: a call from a unit the function does not know to one it
\* knows, of a temperature the conversion to celsius would change.
C16_Witness ==
    /\ conversion.called
    /\ conversion.from = "kelvin"
    /\ conversion.to = "celsius"
    /\ conversion.temp = Integer(18)

\* C17: a temperature converted from celsius to fahrenheit and back to
\* celsius is the starting value to within 1e-9 (here: to within 2^-30,
\* which is less).
C17_RoundTrip ==
    (conversion.called /\ conversion.from = "celsius" /\ conversion.to = "fahrenheit")
    => LET back == convertTemperature(conversion.result, "fahrenheit", "celsius")
           off == exactPlus(back, negate(conversion.temp))
       IN  off.m = <<>> \/ bitLength(off.m) + off.e <= -30

\* C17 witness: a round trip that does not give the starting value exactly.
C17_Witness ==
    /\ conversion.called
    /\ conversion.from = "celsius"
    /\ conversion.to = "fahrenheit"
    /\ conversion.result # conversion.temp
    /\ convertTemperature(conversion.result, "fahrenheit", "celsius") # conversion.temp

(***************************************************************************)
(* SpecWeather: one useWeather instance, its fetches (the first one and    *)
(* the refreshes, which may overlap), their failures, and the unit         *)
(* switched at any moment.                                                 *)
(***************************************************************************)
DisplayUnits == {"celsius", "fahrenheit"}

\* Two short forecasts: of two days, and of a single reading.
ShortForecasts ==
    {[list |-> << [dt |-> 0, temp |-> Decimal(1834, 100), main |-> "Clear", icon |-> "01d"],
                  [dt |-> SecondsPerDay, temp |-> Decimal(-250, 100), main |-> "Snow", icon |-> "13d"] >>],
     [list |-> << [dt |-> SecondsPerDay, temp |-> Decimal(2050, 100), main |-> "Clouds", icon |-> "03d"] >>]}

NextWeather ==
    \/ \E c \in Calls : FetchWeatherData(c)
    \/ \E c \in Calls, weatherData \in WeatherData : WeatherResponds(c, weatherData)
    \/ \E c \in Calls : WeatherFails(c)
    \/ \E c \in Calls, forecastData \in ShortForecasts : ForecastResponds(c, forecastData)
    \/ \E c \in Calls : ForecastFails(c)
    \/ \E c \in Calls : AlertsRespond(c, <<>>)
    \/ \E newUnit \in DisplayUnits : SetUnit(newUnit)

SpecWeather == Init /\ [][NextWeather]_vars

\* the summaries of a forecast list with their temperatures in fahrenheit
InFahrenheit(processed) ==
    [i \in 1..Len(processed) |->
        [processed[i] EXCEPT
           !.tempMin = convertTemperature(@, "celsius", "fahrenheit"),
           !.tempMax = convertTemperature(@, "celsius", "fahrenheit"),
           !.tempAvg = convertTemperature(@, "celsius", "fahrenheit")]]

\* C18: setUnit changes only the unit: the fetched weather, forecast and
\* alerts, lastUpdated, loading and error stay as they are and no fetch is
\* started; what is displayed afterwards is computed from the stored
\* celsius data.
C18_SetUnitChangesOnlyTheUnit ==
    [][lastCall'.op = "setUnit" =>
          \A newUnit \in DisplayUnits :
             SetUnit(newUnit) =>
                LET after == [weather |-> weather', forecast |-> forecast',
                              alerts |-> alerts', loading |-> loading',
                              error |-> error', lastUpdated |-> lastUpdated',
                              unit |-> unit', calls |-> calls']
                IN  /\ unit' = newUnit
                    /\ weather' = weather
                    /\ forecast' = forecast
                    /\ alerts' = alerts
                    /\ lastUpdated' = lastUpdated
                    /\ loading' = loading
                    /\ error' = error
                    /\ calls' = calls
                    /\ weather # Null =>
                          currentTemp(after) =
                             Some(IF newUnit = "fahrenheit"
                                  THEN convertTemperature(weather[1].temp,
                                                          "celsius", "fahrenheit")
                                  ELSE weather[1].temp)
                    /\ forecast # Null =>
                          dailyForecast(after) =
                             IF newUnit = "fahrenheit"
                             THEN InFahrenheit(processForecastData(forecast[1].list))
                             ELSE processForecastData(forecast[1].list)]_vars

\* C18 witness: the unit switched to fahrenheit while a fetch is under way,
\* with weather and forecast of an earlier fetch at hand.
C18_Witness ==
    /\ lastCall.op = "setUnit"
    /\ unit = "fahrenheit"
    /\ loading
    /\ \E c \in Calls : calls[c] # "done"
    /\ weather # Null
    /\ forecast # Null
    /\ lastUpdated # Null

(***************************************************************************)
(* The search history (storage.js:148-184).  SpecHistory starts on a       *)
(* history that earlier searches have left: k places, for every k up to    *)
(* the ten the history keeps, in each of their k rotations (a history is   *)
(* left by searching its places from the last to the first).  Each search  *)
(* falls in a clock reading of its own and every write succeeds.           *)
(***************************************************************************)
\* One place more than the history keeps.
HistoryResults == {Place(i) : i \in 0..MaxHistory}

StartHistories ==
    {[i \in 1..k |-> [lat |-> Place((i + r) % k).lat, lon |-> Place((i + r) % k).lon,
                      searchedAt |-> 0]] :
        k \in 1..MaxHistory, r \in 0..(MaxHistory - 1)} \cup {<<>>}

InitHistory ==
    /\ \E history \in StartHistories :
          localStorage = [k \in STORAGE_KEYS |->
                             IF k = SEARCH_HISTORY /\ history # <<>>
                             THEN stringifyHistory(history) ELSE Null]
    /\ Constructed

\* What a call of the storage module does to the variables, given its outcome.
Stored(op, w, writeOk, size) ==
    /\ localStorage' = w.ls
    /\ lastCall' = [op |-> op, ret |-> IF w.threw THEN Throws ELSE Undefined,
                    setItems |-> w.setItems,
                    failed |-> (w.setItems > 0 /\ ~writeOk), size |-> size]
    /\ UNCHANGED <<cityVars, weatherVars, conversion, otherCities, searchVars>>

\* addToSearchHistory(city), which reads the clock for searchedAt; the clock
\* reads later when the call is over
AddToSearchHistory(city, later, writeOk) ==
    /\ Stored("addToSearchHistory",
              addToSearchHistory(localStorage, city, clock, writeOk), writeOk,
              Len(getSearchHistory(localStorage)))
    /\ clock' = later
    /\ UNCHANGED preferenceVars

NextHistory ==
    /\ clock < MaxClock
    /\ \E city \in HistoryResults : AddToSearchHistory(city, clock + 1, TRUE)

SpecHistory == InitHistory /\ [][NextHistory]_vars

\* the history without its entries of the place
WithoutPlace(history, city) ==
    LET Other(item) == ~SameCoordinates(item, city)
    IN  SelectSeq(history, Other)

\* the places of a history, in order
PlacesOf(history) ==
    [i \in 1..Len(history) |-> [lat |-> history[i].lat, lon |-> history[i].lon]]

\* C19: the stored history has at most 10 entries and no two entries of
\* equal latitude and longitude; after addToSearchHistory the city added is
\* at index 0, and the other entries follow in the order they had (the
\* city's earlier entry taken out, and the list cut to 10).
C19_HistoryRecentFirst ==
    /\ [](LET history == getSearchHistory(localStorage)
          IN  /\ Len(history) <= 10
              /\ \A i \in 1..Len(history), j \in 1..Len(history) :
                    i # j => ~SameCoordinates(history[i], history[j]))
    /\ [][\A city \in HistoryResults :
             AddToSearchHistory(city, clock + 1, TRUE) =>
                LET before == getSearchHistory(localStorage)
                    after == getSearchHistory(localStorage')
                    others == PlacesOf(WithoutPlace(before, city))
                IN  /\ SameCoordinates(after[1], city)
                    /\ Len(after) = Min(10, Len(others) + 1)
                    /\ PlacesOf(Tail(after)) = SubSeq(others, 1, Len(after) - 1)]_vars

\* C19 witness: a search added to a history of ten entries, which still has
\* ten.
C19_Witness ==
    /\ lastCall.op = "addToSearchHistory"
    /\ lastCall.size = 10
    /\ Len(getSearchHistory(localStorage)) = 10

(***************************************************************************)
(* The preferences (storage.js:94-116) and the unit toggle of App.vue.     *)
(* ref(getPreferences()) wraps the object it is given: while nothing is    *)
(* stored that object is DEFAULT_PREFERENCES, and an assignment to a field *)
(* of preferences.value is an assignment to the defaults.                  *)
(***************************************************************************)
\* The objects a caller may hand to savePreferences: some of the fields, each
\* with a value of its kind.
RECURSIVE partials(_)
partials(n) ==
    IF n = 0 THEN {<<>>}
    ELSE partials(n - 1) \cup
         {spread(prefs, PreferenceKeys[n] :> v) :
             prefs \in partials(n - 1), v \in PreferenceValues[PreferenceKeys[n]]}

\* The most fields one call names.
MaxNamed == 2

PartialPreferences ==
    {prefs \in partials(Len(PreferenceKeys)) : Cardinality(DOMAIN prefs) <= MaxNamed}

SavePreferences(prefs, writeOk) ==
    /\ Stored("savePreferences",
              savePreferences(localStorage, DEFAULT_PREFERENCES, prefs, writeOk),
              writeOk, Len(cities))
    /\ UNCHANGED <<clock, preferenceVars>>

\* App.vue:53-57
ToggleTemperatureUnit(writeOk) ==
    LET toggled_ == [preferences EXCEPT
                       !.temperatureUnit = IF @ = "celsius" THEN "fahrenheit"
                                           ELSE "celsius"]
        defaults == IF sharesDefaults THEN toggled_ ELSE DEFAULT_PREFERENCES
    IN  /\ preferences' = toggled_
        /\ DEFAULT_PREFERENCES' = defaults
        /\ Stored("toggleTemperatureUnit",
                  savePreferences(localStorage, defaults, toggled_, writeOk),
                  writeOk, Len(cities))
        /\ UNCHANGED <<clock, sharesDefaults>>

\* App.vue:111-113
OnMounted ==
    /\ preferences' = getPreferences(localStorage, DEFAULT_PREFERENCES)
    /\ sharesDefaults' = (localStorage[PREFERENCES] = Null)
    /\ lastCall' = [op |-> "onMounted", ret |-> Undefined, setItems |-> 0,
                    failed |-> FALSE, size |-> Len(cities)]
    /\ UNCHANGED <<cityVars, localStorage, clock, weatherVars, conversion,
                   DEFAULT_PREFERENCES, otherCities, searchVars>>

NextPreferences ==
    \/ \E prefs \in PartialPreferences, writeOk \in BOOLEAN : SavePreferences(prefs, writeOk)
    \/ \E writeOk \in BOOLEAN : ToggleTemperatureUnit(writeOk)
    \/ OnMounted

SpecPreferences == Init /\ [][NextPreferences]_vars

\* C20: getPreferences returns a value for each of the five default fields,
\* and savePreferences(p), whether its write succeeds or not, leaves every
\* field that p does not name at the value getPreferences returned for it
\* before the call.
C20_SaveKeepsOtherFields ==
    LET before == getPreferences(localStorage, DEFAULT_PREFERENCES)
    IN  /\ DOMAIN before =
              {"temperatureUnit", "theme", "autoRefresh", "refreshInterval", "showAlerts"}
        /\ \A prefs \in PartialPreferences, writeOk \in BOOLEAN :
              LET saved == savePreferences(localStorage, DEFAULT_PREFERENCES, prefs, writeOk)
                  after == getPreferences(saved.ls, DEFAULT_PREFERENCES)
              IN  \A k \in DOMAIN before \ DOMAIN prefs : after[k] = before[k]

\* C20 witness: a save of one field has succeeded on stored preferences that
\* differ from the defaults in another field.
C20_Witness ==
    /\ lastCall.op = "savePreferences"
    /\ ~lastCall.failed
    /\ localStorage[PREFERENCES] # Null
    /\ getPreferences(localStorage, DEFAULT_PREFERENCES).theme = "light"
    /\ getPreferences(localStorage, DEFAULT_PREFERENCES).showAlerts = FALSE
    /\ getPreferences(localStorage, DEFAULT_PREFERENCES).refreshInterval = 60000

(***************************************************************************)
(* What the views show of the current weather: the weather card            *)
(* (WeatherCard.vue), the comparison table and the wind chart              *)
(* (ForecastChart.vue), with the formatters of helpers.js.  A displayed    *)
(* string is kept as its number and its suffix; the wind direction that    *)
(* formatWind appends is left out.  The card's props.unit is the unit of   *)
(* its useWeather instance (WeatherCard.vue:41-43).                        *)
(***************************************************************************)
\* helpers.js:29-33, showUnit true
formatTemperature(temp, unit_) ==
    [number |-> MathRound(temp), suffix |-> IF unit_ = "celsius" THEN "°C" ELSE "°F"]

\* helpers.js:101-106
formatWind(speed, unit_) ==
    [number |-> IF unit_ = "metric" THEN MathRound(product(speed, Decimal(36, 10)))
                ELSE MathRound(speed),
     suffix |-> IF unit_ = "metric" THEN "km/h" ELSE "mph"]

\* WeatherCard.vue:75-82
wind(st) ==
    IF st.weather = Null THEN Null
    ELSE Some(formatWind(st.weather[1].speed,
                         IF st.unit = "celsius" THEN "metric" ELSE "imperial"))

\* WeatherCard.vue:92-95
displayTemp(st) ==
    IF currentTemp(st) = Null THEN Null
    ELSE Some([number |-> MathRound(currentTemp(st)[1]), suffix |-> "°C"])

\* ForecastChart.vue:587-591, the temperature row of the comparison table:
\* a temperature of zero is falsy and shows as dashes
temperatureGetValue(data, unit_) ==
    IF data.temp = Zero THEN Null ELSE Some(formatTemperature(data.temp, unit_))

\* ForecastChart.vue:633-639, the wind row of the comparison table
windGetValue(data, unit_) ==
    IF data.speed = Zero THEN Null
    ELSE Some([number |-> IF unit_ = "celsius"
                          THEN MathRound(product(data.speed, Decimal(36, 10)))
                          ELSE MathRound(product(data.speed, Decimal(2237, 1000))),
               suffix |-> IF unit_ = "celsius" THEN "km/h" ELSE "mph"])

\* ForecastChart.vue:196-201, a point of the wind chart
windPoint(speed, unit_) ==
    IF unit_ = "celsius" THEN MathRound(product(speed, Decimal(36, 10)))
    ELSE MathRound(product(speed, Decimal(2237, 1000)))

\* C21: the wind the card shows (formatWind) is round(speed x 3.6) km/h
\* under the metric tag and round(speed x 2.237) mph under the imperial tag,
\* the numbers the comparison table and the wind chart show for the same
\* speed and unit.
C21_WindSameInEveryView ==
    weather # Null =>
       LET speed == weather[1].speed
           card == wind(WeatherState)[1]
       IN  /\ unit = "celsius" =>
                /\ card.number = MathRound(product(speed, Decimal(36, 10)))
                /\ card.suffix = "km/h"
           /\ unit = "fahrenheit" =>
                /\ card.number = MathRound(product(speed, Decimal(2237, 1000)))
                /\ card.suffix = "mph"
           /\ Some(card) = windGetValue(weather[1], unit)
           /\ card.number = windPoint(speed, unit)

\* C22: the card and the comparison table show the current temperature in
\* the selected unit with the suffix of that unit: the celsius value with
\* °C, the converted value with °F.
C22_TemperatureInSelectedUnit ==
    weather # Null =>
       LET temp == weather[1].temp
           shown == IF unit = "celsius"
                    THEN [number |-> MathRound(temp), suffix |-> "°C"]
                    ELSE [number |-> MathRound(convertTemperature(temp, "celsius", "fahrenheit")),
                          suffix |-> "°F"]
       IN  /\ displayTemp(WeatherState) = Some(shown)
           /\ temperatureGetValue(weather[1], unit) = Some(shown)

\* C23: when addCity(c) has succeeded and removeCity is called next with the
\* id the in-memory list holds for c, the persisted list is left with no
\* city of c's coordinates, whatever the clock read during the add.
C23_RemovedFromStore ==
    [][(lastCall.op = "addCity" /\ lastCall.ret = RetTrue) =>
          LET c == cities[Len(cities)]
          IN  RemoveCity(c.id, TRUE) =>
                 \A i \in 1..Len(getSavedCities(localStorage')) :
                    ~SameCoordinates(getSavedCities(localStorage')[i], c)]_vars

(***************************************************************************)
(* SpecTabs: two useCities instances (two tabs) on one store.  Each has    *)
(* its own cities ref, read from the store when it was set up; the second  *)
(* selects nothing.  The tabs start on a store that holds one city less    *)
(* than the collection may hold; they add one of those cities again or one *)
(* of two further places, and remove what was added.  All calls fall       *)
(* within one clock reading and every write succeeds.                      *)
(***************************************************************************)
OtherReturned(op, r) ==
    /\ otherCities' = r.cities
    /\ localStorage' = r.ls
    /\ lastCall' = [op |-> op, ret |-> r.ret, setItems |-> r.setItems,
                    failed |-> FALSE, size |-> Len(otherCities)]
    /\ UNCHANGED <<cityVars, clock, weatherVars, preferenceVars, conversion, searchVars>>

OtherAddCity(city) ==
    OtherReturned("other.addCity",
                  addCity([cities |-> otherCities, selectedCities |-> <<>>,
                           ls |-> localStorage], city, clock, clock, TRUE))

OtherRemoveCity(cityId_) ==
    OtherReturned("other.removeCity",
                  removeCity([cities |-> otherCities, selectedCities |-> <<>>,
                              ls |-> localStorage], cityId_, TRUE))

OtherReloadCities ==
    OtherReturned("other.reloadCities",
                  reloadCities([cities |-> otherCities, selectedCities |-> <<>>,
                                ls |-> localStorage]))

InitTabs ==
    /\ localStorage =
          [k \in STORAGE_KEYS |->
              IF k = CITIES
              THEN JSONstringify([i \in 1..(maxCities - 1) |-> stamp(Place(i - 1), 0)])
              ELSE Null]
    /\ Constructed

NextTabs ==
    \/ \E i \in {0, maxCities - 1, maxCities} : AddCity(Place(i), clock, TRUE)
    \/ \E i \in maxCities..Len(cities) : RemoveCity(cities[i].id, TRUE)
    \/ ReloadCities
    \/ \E i \in {0, maxCities - 1, maxCities} : OtherAddCity(Place(i))
    \/ \E i \in maxCities..Len(otherCities) : OtherRemoveCity(otherCities[i].id)
    \/ OtherReloadCities

SpecTabs == InitTabs /\ [][NextTabs]_vars

\* C24: with two instances on one store, the persisted list never holds
\* more than 6 cities, and reloadCities never yields an in-memory list of
\* more than 6.
C24_TabsWithinCapacity ==
    /\ Len(getSavedCities(localStorage)) <= 6
    /\ lastCall.op = "reloadCities" => Len(cities) <= 6
    /\ lastCall.op = "other.reloadCities" => Len(otherCities) <= 6

(***************************************************************************)
(* SpecCollection: every call that changes the collection or the           *)
(* selection, with the clock advancing, also between the two readings of   *)
(* one addCity.  The views toggle the cities they show.  Every write       *)
(* succeeds.                                                               *)
(***************************************************************************)
NextCollection ==
    \/ Tick
    \/ \E city \in SearchResults, t2 \in clock..MaxClock : AddCity(city, t2, TRUE)
    \/ \E id \in KnownIds : RemoveCity(id, TRUE)
    \/ \E newOrder \in Swapped(cities) : ReorderCities(newOrder, TRUE)
    \/ \E i \in Indices, j \in Indices : MoveCity(i, j, TRUE)
    \/ ReloadCities
    \/ \E i \in 1..Len(cities) : ToggleCitySelection(cities[i].id)
    \/ SelectAllCities
    \/ ClearSelection

SpecCollection == Init /\ [][NextCollection]_vars

\* C25: every id in the selection is the id of a city of the collection,
\* and is in the selection once.
C25_SelectionWithinCollection ==
    /\ \A i \in 1..Len(selectedCities) :
          \E k \in 1..Len(cities) : cities[k].id = selectedCities[i]
    /\ \A i \in 1..Len(selectedCities), j \in 1..Len(selectedCities) :
          selectedCities[i] = selectedCities[j] => i = j

(***************************************************************************)
(* composables/useSearch.js and debounce of helpers.js.  A string is the   *)
(* sequence of its characters.  Time is counted in steps of which Wait     *)
(* make the wait of the debounced search; a timer that is due runs before  *)
(* time goes on and before any later input is handled.  searchCities       *)
(* answers a query with a list of cities found for it, here a list of one  *)
(* city named by the query, or the empty list, or fails.                   *)
(***************************************************************************)
\* The steps of time that make the wait of debounce(search, 300).
Wait == 2

\* The calls of the debounced function in one run.
MaxTimers == 3

\* String.prototype.trim
trim(str) ==
    LET inked == {i \in 1..Len(str) : str[i] # " "}
    IN  IF inked = {} THEN <<>>
        ELSE SubSeq(str, CHOOSE i \in inked : \A j \in inked : i <= j,
                         CHOOSE i \in inked : \A j \in inked : i >= j)

\* Bug variant of executedFunction: the timer set before is left to run.
executedFunctionKeeps(st, args) ==
    [timeout |-> st.timeout + 1,
     timers  |-> st.timers \cup {[id |-> st.timeout + 1, args |-> args, left |-> Wait]}]

\* helpers.js:220-227: clearTimeout(timeout); timeout = setTimeout(later, wait)
executedFunction(st, args) ==
    LET cleared == {t \in st.timers : t.id # st.timeout}
    IN  [timeout |-> st.timeout + 1,
         timers  |-> cleared \cup {[id |-> st.timeout + 1, args |-> args, left |-> Wait]}]

\* What the user types into the search box.
Inputs == { <<"a", "b">>, <<"a", "b", "c">>, <<" ", "a", " ">>, <<>> }

\* useSearch.js:54-61
OnInput(value) ==
    /\ \A t \in timers : t.left > 0
    /\ query' = value
    /\ IF Len(trim(value)) >= 2
       THEN LET set == executedFunction([timeout |-> timeout, timers |-> timers], value)
            IN  /\ timeout < MaxTimers
                /\ timeout' = set.timeout
                /\ timers' = set.timers
                /\ burst' = [burst EXCEPT !.calls = IF burst.invoked = 0 THEN @ + 1 ELSE 1,
                                          !.last = value, !.since = 0, !.invoked = 0]
                /\ UNCHANGED results
       ELSE /\ results' = <<>>
            /\ UNCHANGED <<timeout, timers, burst>>
    /\ UNCHANGED <<searchLoading, searchError, showDropdown, searches>>
    /\ UNCHANGED <<cityVars, otherCities, localStorage, clock, lastCall, weatherVars,
                   preferenceVars, conversion>>

\* One step of time.
TimePasses ==
    /\ timers # {}
    /\ \A t \in timers : t.left > 0
    /\ timers' = {[t EXCEPT !.left = @ - 1] : t \in timers}
    /\ burst' = [burst EXCEPT !.since = Min(@ + 1, Wait)]
    /\ UNCHANGED <<query, results, searchLoading, searchError, showDropdown, timeout,
                   searches>>
    /\ UNCHANGED <<cityVars, otherCities, localStorage, clock, lastCall, weatherVars,
                   preferenceVars, conversion>>

\* helpers.js:221-224, a timer running later(): clearTimeout(timeout) and
\* search(...args), useSearch.js:26-36, up to its await
Later(t) ==
    /\ t \in timers
    /\ t.left = 0
    /\ timers' = {u \in timers : u.id # t.id /\ u.id # timeout}
    /\ IF Len(trim(t.args)) < 2
       THEN /\ results' = <<>>
            /\ burst' = [burst EXCEPT !.invoked = Min(@ + 1, 2)]
            /\ UNCHANGED <<searchLoading, searchError, searches>>
       ELSE /\ searchLoading' = TRUE
            /\ searchError' = Null
            /\ searches' = Append(searches, t.args)
            /\ burst' = [burst EXCEPT !.invoked = Min(@ + 1, 2), !.started = t.args]
            /\ UNCHANGED results
    /\ UNCHANGED <<query, showDropdown, timeout>>
    /\ UNCHANGED <<cityVars, otherCities, localStorage, clock, lastCall, weatherVars,
                   preferenceVars, conversion>>

\* useSearch.js:36-38 and 42-44: searchCities resolved for the s-th search
\* in flight
SearchResponds(s, searchResults) ==
    /\ s \in 1..Len(searches)
    /\ results' = searchResults
    /\ showDropdown' = TRUE
    /\ searchLoading' = FALSE
    /\ searches' = SubSeq(searches, 1, s - 1) \o SubSeq(searches, s + 1, Len(searches))
    /\ UNCHANGED <<query, searchError, timeout, timers, burst>>
    /\ UNCHANGED <<cityVars, otherCities, localStorage, clock, lastCall, weatherVars,
                   preferenceVars, conversion>>

\* useSearch.js:39-44: searchCities threw
SearchFails(s) ==
    /\ s \in 1..Len(searches)
    /\ searchError' = Some("Geocoding API error: 500")
    /\ results' = <<>>
    /\ searchLoading' = FALSE
    /\ searches' = SubSeq(searches, 1, s - 1) \o SubSeq(searches, s + 1, Len(searches))
    /\ UNCHANGED <<query, showDropdown, timeout, timers, burst>>
    /\ UNCHANGED <<cityVars, otherCities, localStorage, clock, lastCall, weatherVars,
                   preferenceVars, conversion>>

NextSearch ==
    \/ \E value \in Inputs : OnInput(value)
    \/ TimePasses
    \/ \E t \in timers : Later(t)
    \/ \E s \in 1..Len(searches) :
          \E searchResults \in {<<>>, <<[name |-> searches[s]]>>} :
             SearchResponds(s, searchResults)
    \/ \E s \in 1..Len(searches) : SearchFails(s)

SpecSearch == Init /\ [][NextSearch]_vars

\* Time goes on and a due timer runs.
SpecDebounce ==
    /\ SpecSearch
    /\ WF_vars(TimePasses)
    /\ WF_vars(\E t \in timers : Later(t))

\* C26: the wrapped function runs only when the wait has elapsed since the
\* last call of the debounced function, with the arguments of that call,
\* and not a second time for it; and after a call it does run.
C26_DebouncedOncePerBurst ==
    /\ [][\A t \in timers :
             Later(t) => /\ burst.since = Wait
                         /\ t.args = burst.last
                         /\ burst.invoked = 0]_vars
    /\ [](burst.calls > 0 => <>(burst.invoked = 1))

\* C26 witness: the wrapped function has run once after a burst of two
\* calls, with the arguments of the second.
C26_Witness ==
    /\ burst.calls = 2
    /\ burst.invoked = 1
    /\ burst.started = burst.last
    /\ burst.last = <<"a", "b", "c">>

\* C27: when no search is in flight, results that are shown are those of
\* the search started last.
C27_ResultsOfLatestSearch ==
    (searches = <<>> /\ results # <<>>) => results[1].name = burst.started

\* C28: while the value onInput received last has a trimmed length below 2,
\* results is empty.
C28_ShortInputKeepsResultsEmpty ==
    Len(trim(query)) < 2 => results = <<>>

\* C29: loading is true in every state in which a fetchWeatherData call is
\* still in flight (that every call ends with loading false once none is in
\* flight is the other half of the claim).
C29_LoadingWhileInFlight ==
    (\E c \in Calls : calls[c] # "done") => loading

\* C30: when a fetchWeatherData call completes, error is non-null exactly
\* when its current-weather or its forecast request failed; then the call
\* leaves lastUpdated alone and keeps the weather and the forecast of every
\* request that did not succeed.  The alerts request never fails the call.
C30_ErrorIffRequestFailed ==
    [][\A c \in Calls :
          /\ AlertsRespond(c, <<>>) => error' = Null
          /\ WeatherFails(c) =>
                /\ error' # Null
                /\ lastUpdated' = lastUpdated
                /\ weather' = weather
                /\ forecast' = forecast
          /\ ForecastFails(c) =>
                /\ error' # Null
                /\ lastUpdated' = lastUpdated
                /\ forecast' = forecast]_vars

====
